---------------------------- MODULE Spec2Model ----------------------------
(***************************************************************************)
(* Model of log_analyzer.py: main() drives load_config, setup_logging,     *)
(* find_last_log, parse_log_file (one step per log line) and               *)
(* generate_report.                                                        *)
(*                                                                         *)
(* Text is modelled character by character: a line is a sequence of        *)
(* one-character strings, and the two regular expressions of               *)
(* parse_log_file are evaluated on those characters.  A float is modelled  *)
(* as an exact decimal scaled by 10^FracDigits; quotients (averages,       *)
(* medians of an even count, percentages) are exact fractions [num, den].  *)
(***************************************************************************)
EXTENDS Integers, Sequences, FiniteSets, TLC

VARIABLES pc, config, last_log, corrupt, lines, url, log_entries,
          parse_state, error, table_json, report_file

vars == <<pc, config, last_log, corrupt, lines, url, log_entries,
          parse_state, error, table_json, report_file>>

---------------------------------------------------------------------------
(* Bounds of the model *)

MaxLines == 4          \* lines read from one log file
MaxReportSize == 2     \* largest REPORT_SIZE in a configuration
MaxNegReportSize == 1  \* REPORT_SIZE ranges down to -MaxNegReportSize
FracDigits == 2        \* decimal places kept by the scaled floats

ReportSizes == (0 - MaxNegReportSize)..MaxReportSize

---------------------------------------------------------------------------
(* Sentinels *)

NoMatch == <<>>                        \* re.search returned None
Unbound == <<>>                        \* local variable not assigned yet
NoConfig == <<>>                       \* config not assigned yet
NoTable == <<>>                        \* table_json not computed; else <<table>>
NoFile == <<>>                         \* no report file written; else <<table>>
None == "None"

---------------------------------------------------------------------------
(* Arithmetic helpers *)

Min(a, b) == IF a <= b THEN a ELSE b
Max(a, b) == IF a >= b THEN a ELSE b

RECURSIVE Pow10(_)
Pow10(n) == IF n = 0 THEN 1 ELSE 10 * Pow10(n - 1)

Rat(n, d) == [num |-> n, den |-> d]

RECURSIVE Sum(_)
Sum(s) == IF s = <<>> THEN 0 ELSE Head(s) + Sum(Tail(s))

RECURSIVE MaxOf(_)
MaxOf(s) == IF Len(s) = 1 THEN s[1] ELSE Max(s[1], MaxOf(Tail(s)))

---------------------------------------------------------------------------
(* Regular expressions of parse_log_file *)

Digits == {"0", "1", "2", "3", "4", "5", "6", "7", "8", "9"}

DigitVal(c) ==
    CASE c = "0" -> 0 [] c = "1" -> 1 [] c = "2" -> 2 [] c = "3" -> 3
      [] c = "4" -> 4 [] c = "5" -> 5 [] c = "6" -> 6 [] c = "7" -> 7
      [] c = "8" -> 8 [] c = "9" -> 9

\* the alternation (?:GET|POST|PUT|DELETE)
Methods == { <<"G", "E", "T">>, <<"P", "O", "S", "T">>, <<"P", "U", "T">>,
             <<"D", "E", "L", "E", "T", "E">> }

\* the literal w occurs in line at position i
LiteralAt(line, i, w) ==
    /\ i >= 1
    /\ i + Len(w) - 1 <= Len(line)
    /\ \A k \in 1..Len(w) : line[i + k - 1] = w[k]

\* end of the greedy run of characters of class cls that starts at i
\* (i - 1 when line[i] is not in the class)
RECURSIVE RunEnd(_, _, _)
RunEnd(line, i, isIn) ==
    IF i <= Len(line) /\ isIn[line[i]] THEN RunEnd(line, i + 1, isIn) ELSE i - 1

Chars(line) == {line[i] : i \in 1..Len(line)}
IsDigit(line) == [c \in Chars(line) |-> c \in Digits]
IsNotQuote(line) == [c \in Chars(line) |-> c # "\""]

\* url_pattern = "(?:GET|POST|PUT|DELETE) (/[^"]+)" matched at position i:
\* the captured group 1, or NoMatch
UrlMatchAt(line, i) ==
    IF \E m \in Methods : LiteralAt(line, i, <<"\"">> \o m \o <<" ", "/">>)
    THEN LET m == CHOOSE w \in Methods :
                      LiteralAt(line, i, <<"\"">> \o w \o <<" ", "/">>)
             slash == i + Len(m) + 2
             last == RunEnd(line, slash + 1, IsNotQuote(line))
         IN IF last >= slash + 1 /\ last + 1 <= Len(line)
            THEN SubSeq(line, slash, last)
            ELSE NoMatch
    ELSE NoMatch

\* re.search(url_pattern, line): group 1 of the leftmost match, or NoMatch
UrlSearch(line) ==
    LET starts == {i \in 1..Len(line) : UrlMatchAt(line, i) # NoMatch}
    IN IF starts = {} THEN NoMatch
       ELSE UrlMatchAt(line, CHOOSE i \in starts : \A j \in starts : i <= j)

\* $ matches at the end of the string and before a newline that ends it
AtDollar(line, k) ==
    \/ k = Len(line)
    \/ k = Len(line) - 1 /\ line[Len(line)] = "\n"

\* time_pattern = (\d+\.\d+)$ matched at position i: group 1, or NoMatch
TimeMatchAt(line, i) ==
    LET intEnd == RunEnd(line, i, IsDigit(line))
        fracEnd == RunEnd(line, intEnd + 2, IsDigit(line))
    IN IF /\ intEnd >= i
          /\ intEnd + 1 <= Len(line)
          /\ line[intEnd + 1] = "."
          /\ fracEnd >= intEnd + 2
          /\ AtDollar(line, fracEnd)
       THEN SubSeq(line, i, fracEnd)
       ELSE NoMatch

\* re.search(time_pattern, line): group 1 of the leftmost match, or NoMatch
TimeSearch(line) ==
    LET starts == {i \in 1..Len(line) : TimeMatchAt(line, i) # NoMatch}
    IN IF starts = {} THEN NoMatch
       ELSE TimeMatchAt(line, CHOOSE i \in starts : \A j \in starts : i <= j)

RECURSIVE DecVal(_)
DecVal(s) ==
    IF s = <<>> THEN 0
    ELSE 10 * DecVal(SubSeq(s, 1, Len(s) - 1)) + DigitVal(s[Len(s)])

\* float(text) of a text  digits "." digits, as a decimal scaled by
\* 10^FracDigits
ParseFloat(s) ==
    LET dot == CHOOSE i \in 1..Len(s) : s[i] = "."
        ip == SubSeq(s, 1, dot - 1)
        fp == SubSeq(s, dot + 1, Len(s))
    IN DecVal(ip) * Pow10(FracDigits)
       + IF Len(fp) <= FracDigits
         THEN DecVal(fp) * Pow10(FracDigits - Len(fp))
         ELSE DecVal(SubSeq(fp, 1, FracDigits))

---------------------------------------------------------------------------
(* Log lines the file may hold *)

ReqGetA == <<"\"", "G", "E", "T", " ", "/", "a", "\"">>
ReqPostB == <<"\"", "P", "O", "S", "T", " ", "/", "b", "\"">>
ReqPutC == <<"\"", "P", "U", "T", " ", "/", "c", "\"">>
ReqHeadA == <<"\"", "H", "E", "A", "D", " ", "/", "a", "\"">>
NL == <<"\n">>

LineGetA05 == ReqGetA \o <<" ", "0", ".", "5">> \o NL
LineGetA15 == ReqGetA \o <<" ", "1", ".", "5">> \o NL
LinePostB00 == ReqPostB \o <<" ", "0", ".", "0">> \o NL
LinePutC10 == ReqPutC \o <<" ", "1", ".", "0">>
LineGetAabc == ReqGetA \o <<" ", "a", "b", "c">> \o NL
LineHeadA025 == ReqHeadA \o <<" ", "0", ".", "2", "5">> \o NL
LineGetAneg == ReqGetA \o <<" ", "-", "0", ".", "5">> \o NL

LogLines == { LineGetA05, LineGetA15, LinePostB00, LinePutC10,
              LineGetAabc, LineHeadA025, LineGetAneg }

---------------------------------------------------------------------------
(* parse_log_file *)

\* LogEntry(url, request_time); src is a history field, the number of the
\* line the entry was built at
LogEntry(u, t, n) == [url |-> u, request_time |-> t, src |-> n]

\* a wrong append: the entry is put at the front of the list
PrependEntry(entries, e) == <<e>> \o entries

\* log_entries.append(entry)
AppendEntry(entries, e) == Append(entries, e)

Init ==
    /\ pc = "load_config"
    /\ config = NoConfig
    /\ last_log = "unset"
    /\ corrupt = FALSE
    /\ lines = <<>>
    /\ url = Unbound
    /\ log_entries = <<>>
    /\ parse_state = "not_called"
    /\ error = "none"
    /\ table_json = NoTable
    /\ report_file = NoFile

\* main's except clause: the error is logged and main ends
Caught(e) ==
    /\ error' = e
    /\ pc' = "done"

\* load_config: raises for a missing or invalid file, else the merged config
LoadConfig ==
    /\ pc = "load_config"
    /\ \/ /\ \E e \in {"FileNotFoundError", "ValueError"} : Caught(e)
          /\ UNCHANGED config
       \/ /\ \E n \in ReportSizes : config' = [REPORT_SIZE |-> n]
          /\ pc' = "setup_logging"
          /\ UNCHANGED error
    /\ UNCHANGED <<last_log, corrupt, lines, url, log_entries, parse_state,
                   table_json, report_file>>

\* setup_logging(config.get("LOG_FILE")): configures the logger
SetupLogging ==
    /\ pc = "setup_logging"
    /\ pc' = "find_last_log"
    /\ UNCHANGED <<config, last_log, corrupt, lines, url, log_entries,
                   parse_state, error, table_json, report_file>>

\* a wrong main: the test of find_last_log's result does not return
FindLastLogNoReturn ==
    /\ pc = "find_last_log"
    /\ last_log' \in {None, "path"}
    /\ pc' = "parse_log_file"
    /\ parse_state' = "running"
    /\ UNCHANGED <<config, corrupt, lines, url, log_entries, error, table_json,
                   report_file>>

\* find_last_log and main's test of its result: None ends main, a path goes
\* on to parse_log_file
FindLastLog ==
    /\ pc = "find_last_log"
    /\ \/ /\ last_log' = None
          /\ pc' = "done"
          /\ UNCHANGED parse_state
       \/ /\ last_log' = "path"
          /\ pc' = "parse_log_file"
          /\ parse_state' = "running"
    /\ UNCHANGED <<config, corrupt, lines, url, log_entries, error, table_json,
                   report_file>>

\* one iteration of  for line in log_file
ParseLine ==
    /\ pc = "parse_log_file"
    /\ Len(lines) < MaxLines
    /\ \E line \in LogLines :
         LET url_match == UrlSearch(line)
             url1 == IF url_match # NoMatch THEN url_match ELSE url
             time_match == TimeSearch(line)
         IN /\ lines' = Append(lines, line)
            /\ url' = url1
            /\ IF time_match # NoMatch
               THEN IF url1 = Unbound
                    THEN /\ parse_state' = "raised"
                         /\ Caught("UnboundLocalError")
                         /\ UNCHANGED log_entries
                    ELSE /\ log_entries' =
                              AppendEntry(log_entries,
                                  LogEntry(url1, ParseFloat(time_match),
                                           Len(lines) + 1))
                         /\ UNCHANGED <<parse_state, error, pc>>
               ELSE UNCHANGED <<log_entries, parse_state, error, pc>>
    /\ UNCHANGED <<config, last_log, corrupt, table_json, report_file>>

\* the next read finds the archive damaged and raises inside the loop;
\* corrupt records that the file was not a sound archive
ParseReadError ==
    /\ pc = "parse_log_file"
    /\ corrupt' = TRUE
    /\ parse_state' = "raised"
    /\ Caught("BadGzipFile")
    /\ UNCHANGED <<config, last_log, lines, url, log_entries,
                   table_json, report_file>>

\* end of file: return log_entries
ParseReturn ==
    /\ pc = "parse_log_file"
    /\ parse_state' = "returned"
    /\ pc' = "generate_report"
    /\ UNCHANGED <<config, last_log, corrupt, lines, url, log_entries, error,
                   table_json, report_file>>

---------------------------------------------------------------------------
(* generate_report *)

\* url_stats is a dict, which keeps its keys in insertion order: a sequence
\* of [url, count, time_sum, request_times]
DefaultStats(u) == [url |-> u, count |-> 0, time_sum |-> 0,
                    request_times |-> <<>>]

\* one iteration of  for entry in log_entries
AddEntryToStats(url_stats, entry) ==
    LET known == \E k \in 1..Len(url_stats) : url_stats[k].url = entry.url
        us == IF known THEN url_stats
              ELSE Append(url_stats, DefaultStats(entry.url))
    IN [k \in 1..Len(us) |->
          IF us[k].url = entry.url
          THEN [url |-> us[k].url,
                count |-> us[k].count + 1,
                time_sum |-> us[k].time_sum + entry.request_time,
                request_times |->
                    Append(us[k].request_times, entry.request_time)]
          ELSE us[k]]

RECURSIVE UrlStats(_)
UrlStats(entries) ==
    IF entries = <<>> THEN <<>>
    ELSE AddEntryToStats(UrlStats(SubSeq(entries, 1, Len(entries) - 1)),
                         entries[Len(entries)])

RECURSIVE SumField(_, _)
SumField(url_stats, f) ==
    IF url_stats = <<>> THEN 0
    ELSE Head(url_stats)[f] + SumField(Tail(url_stats), f)

\* a wrong total_count: the number of URLs, not of entries
TotalCountOfUrls(url_stats) == Len(url_stats)

\* total_count and total_time: sums over every value of url_stats
TotalCount(url_stats) == SumField(url_stats, "count")
TotalTime(url_stats) == SumField(url_stats, "time_sum")

\* a wrong sort: the reverse of an ascending sort, which turns ties around
InsertByTimeSumDescUnstable(sorted, x) ==
    SelectSeq(sorted, LAMBDA y : y.time_sum > x.time_sum)
      \o <<x>> \o
    SelectSeq(sorted, LAMBDA y : y.time_sum <= x.time_sum)

\* sorted(..., key=time_sum, reverse=True) is stable: an item goes behind
\* every item whose key is not smaller
InsertByTimeSumDesc(sorted, x) ==
    SelectSeq(sorted, LAMBDA y : y.time_sum >= x.time_sum)
      \o <<x>> \o
    SelectSeq(sorted, LAMBDA y : y.time_sum < x.time_sum)

RECURSIVE SortedByTimeSumDesc(_)
SortedByTimeSumDesc(items) ==
    IF items = <<>> THEN <<>>
    ELSE InsertByTimeSumDesc(
             SortedByTimeSumDesc(SubSeq(items, 1, Len(items) - 1)),
             items[Len(items)])

\* a wrong slice: one item too many
SliceOffByOne(seq, n) ==
    IF n >= 0 THEN SubSeq(seq, 1, Min(n + 1, Len(seq)))
    ELSE SubSeq(seq, 1, Max(Len(seq) + n, 0))

\* the slice  seq[:n]  of Python: a negative n counts from the end
Slice(seq, n) ==
    IF n >= 0 THEN SubSeq(seq, 1, Min(n, Len(seq)))
    ELSE SubSeq(seq, 1, Max(Len(seq) + n, 0))

\* sorted(data), ascending and stable
InsertAsc(sorted, x) ==
    SelectSeq(sorted, LAMBDA y : y <= x) \o <<x>> \o
    SelectSeq(sorted, LAMBDA y : y > x)

RECURSIVE SortedAsc(_)
SortedAsc(data) ==
    IF data = <<>> THEN <<>>
    ELSE InsertAsc(SortedAsc(SubSeq(data, 1, Len(data) - 1)), data[Len(data)])

\* a wrong median: the middle of the data as given, not sorted
MedianUnsorted(data) ==
    LET n == Len(data)
        i == n \div 2
    IN IF n % 2 = 1 THEN Rat(data[i + 1], 1)
       ELSE Rat(data[i] + data[i + 1], 2)

\* statistics.median(data) of a non-empty list
Median(data) ==
    LET sd == SortedAsc(data)
        n == Len(sd)
        i == n \div 2
    IN IF n % 2 = 1 THEN Rat(sd[i + 1], 1)
       ELSE Rat(sd[i] + sd[i + 1], 2)

\* (part / total) * 100 if total else 0
Perc(part, total) ==
    IF total # 0 THEN Rat(part * 100, total) ELSE Rat(0, 1)

\* one dict of the list given to json.dumps
TableEntry(stats, total_time, total_count) ==
    [count |-> stats.count,
     time_avg |-> IF Len(stats.request_times) > 0
                  THEN Rat(Sum(stats.request_times), Len(stats.request_times))
                  ELSE Rat(0, 1),
     time_max |-> IF stats.request_times # <<>>
                  THEN MaxOf(stats.request_times) ELSE 0,
     time_sum |-> stats.time_sum,
     url |-> stats.url,
     time_med |-> IF stats.request_times # <<>>
                  THEN Median(stats.request_times) ELSE Rat(0, 1),
     time_perc |-> Perc(stats.time_sum, total_time),
     count_perc |-> Perc(stats.count, total_count)]

\* the table generate_report builds from log_entries and report_size
Table(entries, report_size) ==
    LET url_stats == UrlStats(entries)
        total_count == TotalCount(url_stats)
        total_time == TotalTime(url_stats)
        sorted_urls == Slice(SortedByTimeSumDesc(url_stats), report_size)
    IN [k \in 1..Len(sorted_urls) |->
           TableEntry(sorted_urls[k], total_time, total_count)]

\* generate_report(log_entries, REPORT_DIR, REPORT_SIZE): the report
\* directory may fail to be created and the template may fail to open; the
\* report file is written last
GenerateReport ==
    /\ pc = "generate_report"
    /\ \/ /\ Caught("OSError")
          /\ UNCHANGED <<table_json, report_file>>
       \/ /\ table_json' = <<Table(log_entries, config.REPORT_SIZE)>>
          /\ Caught("FileNotFoundError")
          /\ UNCHANGED report_file
       \/ /\ table_json' = <<Table(log_entries, config.REPORT_SIZE)>>
          /\ report_file' = table_json'
          /\ pc' = "done"
          /\ UNCHANGED error
    /\ UNCHANGED <<config, last_log, corrupt, lines, url, log_entries,
                   parse_state>>

Next ==
    \/ LoadConfig
    \/ SetupLogging
    \/ FindLastLog
    \/ ParseLine
    \/ ParseReadError
    \/ ParseReturn
    \/ GenerateReport

Spec == Init /\ [][Next]_vars

---------------------------------------------------------------------------
(* Definitions used by the properties *)

RECURSIVE Gcd(_, _)
Gcd(a, b) == IF b = 0 THEN a ELSE Gcd(b, a % b)

Lcm(a, b) == (a \div Gcd(a, b)) * b

\* the fraction n/d (d positive) in lowest terms
Lowest(n, d) == Rat(n \div Gcd(n, d), d \div Gcd(n, d))

\* p/q = r as exact fractions
RatEq(r, p, q) == Lowest(r.num, r.den) = Lowest(p, q)

\* sum of fractions (denominators positive), over their common denominator
RECURSIVE RatSum(_)
RatSum(rs) ==
    IF rs = <<>> THEN Rat(0, 1)
    ELSE LET h == Head(rs)
             t == RatSum(Tail(rs))
             l == Lcm(h.den, t.den)
         IN Rat(h.num * (l \div h.den) + t.num * (l \div t.den), l)

TableOf == table_json[1]
ReportSize == config.REPORT_SIZE
EntryUrls == {log_entries[i].url : i \in 1..Len(log_entries)}

\* the line an entry was built at
SrcLine(i) == lines[log_entries[i].src]

\* positions of the entries of URL u, and their durations taken from
\* log_entries directly
IndexOf(u) == {i \in 1..Len(log_entries) : log_entries[i].url = u}

RECURSIVE TimeOver(_)
TimeOver(S) ==
    IF S = {} THEN 0
    ELSE LET i == CHOOSE j \in S : TRUE
         IN log_entries[i].request_time + TimeOver(S \ {i})

FirstSeen(u) == CHOOSE i \in IndexOf(u) : \A j \in IndexOf(u) : i <= j

\* the k-th smallest duration among the entries at the positions S
KthSmallest(S, k) ==
    CHOOSE v \in {log_entries[i].request_time : i \in S} :
        /\ Cardinality({i \in S : log_entries[i].request_time < v}) < k
        /\ Cardinality({i \in S : log_entries[i].request_time <= v}) >= k

\* the last whitespace-separated token of a line
IsSpace(line) == [c \in Chars(line) |-> c \in {" ", "\n"}]
IsNotSpace(line) == [c \in Chars(line) |-> c \notin {" ", "\n"}]

RECURSIVE RunStart(_, _, _)
RunStart(line, i, isIn) ==
    IF i >= 1 /\ isIn[line[i]] THEN RunStart(line, i - 1, isIn) ELSE i + 1

TrailingToken(line) ==
    LET last == RunStart(line, Len(line), IsSpace(line)) - 1
        first == RunStart(line, last, IsNotSpace(line))
    IN SubSeq(line, first, last)

\* the token is digits "." digits and nothing else
IsNonNegativeNumber(tok) == tok # <<>> /\ TimeMatchAt(tok, 1) = tok

---------------------------------------------------------------------------
(* Properties of parse_log_file *)

\* C1: every entry comes from a line that matches the URL pattern and the
\* time pattern, and both of its fields are the captures of that line.
C1_AtomicCapture ==
    \A i \in 1..Len(log_entries) :
        /\ UrlSearch(SrcLine(i)) # NoMatch
        /\ TimeSearch(SrcLine(i)) # NoMatch
        /\ log_entries[i].url = UrlSearch(SrcLine(i))
        /\ log_entries[i].request_time = ParseFloat(TimeSearch(SrcLine(i)))

\* C2: on a sound archive parse_log_file never raises, whatever the lines.
C2_ParserNeverRaises ==
    ~corrupt => parse_state # "raised"

\* C3: there are at most as many entries as lines read, the entries are in
\* the order of the lines they were built at, each carries the duration of
\* its line, and an empty file gives an empty list.
C3_OrderPreserved ==
    /\ Len(log_entries) <= Len(lines)
    /\ \A i \in 1..Len(log_entries) :
          /\ log_entries[i].src \in 1..Len(lines)
          /\ TimeSearch(SrcLine(i)) # NoMatch
          /\ log_entries[i].request_time = ParseFloat(TimeSearch(SrcLine(i)))
    /\ \A i, j \in 1..Len(log_entries) :
          i < j => log_entries[i].src < log_entries[j].src
    /\ lines = <<>> => log_entries = <<>>

C3_Witness ==
    /\ parse_state = "returned"
    /\ Len(log_entries) >= 2
    /\ Len(log_entries) < Len(lines)

\* C10: no entry has a negative duration, and no entry was built at a line
\* whose last token is not a non-negative number.
C10_NoNegativeOrNonNumeric ==
    \A i \in 1..Len(log_entries) :
        /\ log_entries[i].request_time >= 0
        /\ IsNonNegativeNumber(TrailingToken(SrcLine(i)))

---------------------------------------------------------------------------
(* Properties of generate_report *)

TableUrls == {TableOf[k].url : k \in 1..Len(TableOf)}

\* C4: for a positive report_size the table has min(report_size, number of
\* distinct URLs) entries, one per URL; no entries give an empty table.
C4_TableLength ==
    table_json # NoTable =>
        /\ ReportSize > 0 =>
              /\ Len(TableOf) = Min(ReportSize, Cardinality(EntryUrls))
              /\ Cardinality(TableUrls) = Len(TableOf)
              /\ TableUrls \subseteq EntryUrls
        /\ log_entries = <<>> => TableOf = <<>>

C4_Witness ==
    /\ report_file # NoFile
    /\ error = "none"
    /\ ReportSize > 0
    /\ ReportSize < Cardinality(EntryUrls)
    /\ Len(TableOf) = ReportSize

\* u ranks before w: larger time_sum, or equal time_sum and seen first
RanksBefore(u, w) ==
    \/ TimeOver(IndexOf(u)) > TimeOver(IndexOf(w))
    \/ /\ TimeOver(IndexOf(u)) = TimeOver(IndexOf(w))
       /\ FirstSeen(u) < FirstSeen(w)

\* C5: for a positive report_size the table is in descending order of
\* time_sum, URLs of equal time_sum are in the order of their first entries,
\* and every URL left out ranks behind every URL kept.
C5_Ranking ==
    (table_json # NoTable /\ ReportSize > 0) =>
        /\ \A i, j \in 1..Len(TableOf) :
              i < j => /\ TableOf[i].time_sum >= TableOf[j].time_sum
                       /\ RanksBefore(TableOf[i].url, TableOf[j].url)
        /\ \A k \in 1..Len(TableOf) : \A w \in EntryUrls \ TableUrls :
              RanksBefore(TableOf[k].url, w)

C5_Witness ==
    /\ table_json # NoTable
    /\ ReportSize > 0
    /\ Len(TableOf) >= 2
    /\ TableOf[1].time_sum = TableOf[2].time_sum
    /\ FirstSeen(TableOf[1].url) > 1
    /\ EntryUrls \ TableUrls # {}

\* C6: a report_size that is not positive gives an empty table.
C6_NonPositiveSizeEmpty ==
    (table_json # NoTable /\ ReportSize <= 0) => TableOf = <<>>

\* C7: each entry of the table holds the statistics of exactly the entries
\* of log_entries with its URL: their number (at least 1), sum, mean,
\* maximum and median.
C7_Statistics ==
    table_json # NoTable =>
        \A k \in 1..Len(TableOf) :
            LET t == TableOf[k]
                S == IndexOf(t.url)
                n == Cardinality(S)
            IN /\ t.count = n
               /\ n >= 1
               /\ t.time_sum = TimeOver(S)
               /\ RatEq(t.time_avg, t.time_sum, t.count)
               /\ \E i \in S : t.time_max = log_entries[i].request_time
               /\ \A i \in S : log_entries[i].request_time <= t.time_max
               /\ IF n % 2 = 1
                  THEN RatEq(t.time_med, KthSmallest(S, (n + 1) \div 2), 1)
                  ELSE RatEq(t.time_med,
                             KthSmallest(S, n \div 2)
                               + KthSmallest(S, n \div 2 + 1), 2)

C7_Witness ==
    /\ table_json # NoTable
    /\ \E k \in 1..Len(TableOf) :
          /\ TableOf[k].count = 4
          /\ TableOf[k].time_med.num < 2 * TableOf[k].time_max
          /\ TableOf[k].time_med.num
               > 2 * log_entries[FirstSeen(TableOf[k].url)].request_time
          /\ TableOf[k].time_avg.num * 2
               # TableOf[k].time_med.num * TableOf[k].time_avg.den

GrandTime == TimeOver(1..Len(log_entries))
GrandCount == Len(log_entries)
TimePercs == [k \in 1..Len(TableOf) |-> TableOf[k].time_perc]
CountPercs == [k \in 1..Len(TableOf) |-> TableOf[k].count_perc]
Untruncated == TableUrls = EntryUrls
NonNegative(r) == r.num >= 0 /\ r.den > 0

\* C8 as stated: for every non-empty list of entries, all-zero durations
\* included, the percentages are taken against the grand totals, are not
\* negative, and over the untruncated table time_perc and count_perc each
\* sum to 100.
C8_PercSumAlways100 ==
    (table_json # NoTable /\ log_entries # <<>>) =>
        /\ \A k \in 1..Len(TableOf) :
              /\ NonNegative(TableOf[k].time_perc)
              /\ NonNegative(TableOf[k].count_perc)
              /\ RatEq(TableOf[k].count_perc, TableOf[k].count * 100,
                       GrandCount)
        /\ Untruncated => /\ RatEq(RatSum(TimePercs), 100, 1)
                          /\ RatEq(RatSum(CountPercs), 100, 1)

\* C8 amended: the percentages are taken against the grand totals over all
\* entries and are not negative; over the untruncated table count_perc sums
\* to 100, and time_perc sums to 100 when the grand total time is not zero;
\* when it is zero every time_perc is 0.
C8_PercTotals ==
    (table_json # NoTable /\ log_entries # <<>>) =>
        /\ \A k \in 1..Len(TableOf) :
              /\ NonNegative(TableOf[k].time_perc)
              /\ NonNegative(TableOf[k].count_perc)
              /\ RatEq(TableOf[k].count_perc, TableOf[k].count * 100,
                       GrandCount)
              /\ IF GrandTime # 0
                 THEN RatEq(TableOf[k].time_perc, TableOf[k].time_sum * 100,
                            GrandTime)
                 ELSE RatEq(TableOf[k].time_perc, 0, 1)
        /\ Untruncated =>
              /\ RatEq(RatSum(CountPercs), 100, 1)
              /\ IF GrandTime # 0
                 THEN RatEq(RatSum(TimePercs), 100, 1)
                 ELSE RatEq(RatSum(TimePercs), 0, 1)

C8_Witness ==
    /\ table_json # NoTable
    /\ Len(log_entries) >= 2
    /\ GrandTime = 0
    /\ Untruncated
    /\ TableOf[1].count_perc.num = 100 * TableOf[1].count_perc.den

---------------------------------------------------------------------------
(* Properties of main *)

\* C9: generate_report is reached, and a table or a report file exists, only
\* when the configuration was loaded, a log file was found and
\* parse_log_file returned; a report file holds the whole table.
C9_ReportOnlyAfterPipeline ==
    /\ (pc = "generate_report" \/ table_json # NoTable \/ report_file # NoFile)
          => /\ config # NoConfig
             /\ last_log = "path"
             /\ parse_state = "returned"
    /\ report_file # NoFile => report_file = table_json /\ error = "none"
    /\ (\/ error \in {"FileNotFoundError", "ValueError"} /\ config = NoConfig
        \/ last_log = None
        \/ parse_state = "raised")
          => pc = "done" /\ table_json = NoTable /\ report_file = NoFile

C9_Witness ==
    /\ pc = "done"
    /\ parse_state = "raised"
    /\ error = "BadGzipFile"
    /\ log_entries # <<>>
    /\ report_file = NoFile

====
